---- MODULE Spec2Model ----
(***************************************************************************)
(* Model of porepy.composite: ComputationalDomain (variable registry,      *)
(* phase list, composition, material mapping) and Substance (uniqueness    *)
(* table, fraction variables).                                             *)
(*                                                                         *)
(* Strings are sequences of one-character strings so that str.split and    *)
(* string concatenation are computed, not assumed.                         *)
(* Objects (domains, substances, phases, variables) are identified by the  *)
(* number they got at construction; identity is that number.               *)
(***************************************************************************)
EXTENDS Integers, Sequences, FiniteSets, TLC

VARIABLES
  table,       \* Substance.__substance_instances: domain instance -> list of names
  cds,         \* constructed ComputationalDomain instances: id -> fields
  substances,  \* constructed Substance instances, in construction order
  phases,      \* constructed Phase instances, in construction order
  nextDom,     \* identity of the next object passed through ComputationalDomain.__init__
  last,        \* the last operation, its arguments and its outcome
  calls        \* Substance.__new__ calls in progress: thread -> name, domain, position

vars == <<table, cds, substances, phases, nextDom, last, calls>>

----------------------------------------------------------------------------
(* Bounds *)

MaxDomains == 2      \* ComputationalDomain constructions attempted
MaxGrids == 2        \* subregions of the largest domain graph
MaxSubstances == 2   \* Substance instances that callers can reach
MaxPhases == 2       \* Phase instances
MaxVars == 2         \* variables registered in all registries together
MaxFractions == 2    \* fraction-in-phase variables of all substances together
MaxThreads == 2      \* threads that construct substances at the same time
MaxObjects == 4      \* domains, substances, phases and variables made on request together

----------------------------------------------------------------------------
(* Strings *)

Range(s) == {s[i] : i \in 1..Len(s)}

EmptyMap == [x \in {} |-> 0]

Underscore == "_"

mortar == <<"m","o","r","t","a","r">>
mortar_p == mortar \o <<"_","p">>
p_mortar == <<"p","_">> \o mortar
pressure == <<"p">>

\* the names the registry accessor and is_variable are called with
VarNames == {mortar, mortar_p, p_mortar, pressure}

UnitSolidName == <<"U","n","i","t","S","o","l","i","d">>
Water == <<"W","a","t","e","r">>

\* concrete Substance subclasses callers construct (cls.__name__)
SubstanceTypes == {UnitSolidName, Water}

Liquid == <<"L","i","q","u","i","d">>
Gas == <<"G","a","s">>
PhaseNames == {Liquid, Gas}

\* subregions; a domain graph holds the subregions 1..n
GridPool == 1..MaxGrids
GridBuckets == {1..n : n \in 0..MaxGrids}

\* DOF specifications (dof_info); the first is the default of __call__
DefaultDof == [cells |-> 1]
DofInfos == {DefaultDof, [faces |-> 1]}

\* COMPUTATIONAL_VARIABLES of _composite_utils
COMPUTATIONAL_VARIABLES ==
  [mortar_prefix |-> mortar,
   component_overall_fraction |-> <<"z","e","t","a">>,
   component_fraction_in_phase |-> <<"c","h","i">>]

\* str.split(sep): the tokens between the separators, at least one token
RECURSIVE SplitFrom(_, _, _, _)
SplitFrom(s, i, cur, acc) ==
  IF i > Len(s) THEN Append(acc, cur)
  ELSE IF s[i] = Underscore THEN SplitFrom(s, i + 1, <<>>, Append(acc, cur))
  ELSE SplitFrom(s, i + 1, Append(cur, s[i]), acc)

split(s) == SplitFrom(s, 1, <<>>, <<>>)

----------------------------------------------------------------------------
(* Collaborators *)

\* the identity of a new object: who had it made, and its number there
NoVar == [id |-> <<>>]
VarId(kind, owner, serial) == <<kind, owner, serial>>

\* create_merged_variable(gb, dof_info, name): a new subregion-scoped variable
create_merged_variable(g, dof_info, name, id) ==
  [id |-> id, name |-> name, dof |-> dof_info, scope |-> "subdomain"]

\* create_merged_mortar_variable(gb, dof_info, name): a new interface-scoped variable
create_merged_mortar_variable(g, dof_info, name, id) ==
  [id |-> id, name |-> name, dof |-> dof_info, scope |-> "mortar"]

----------------------------------------------------------------------------
(* Substance *)

\* the uniqueness check made on the names of all domains together
Substance_new_AnyDomain(tbl, name, g) ==
  IF \E k \in DOMAIN tbl : name \in Range(tbl[k])
    THEN [err |-> "RuntimeError", table |-> tbl]
    ELSE IF g \in DOMAIN tbl
      THEN [err |-> "", table |-> [tbl EXCEPT ![g] = Append(@, name)]]
      ELSE [err |-> "", table |-> (g :> <<name>>) @@ tbl]

\* a table that keeps only the name constructed last on a domain
Substance_new_LatestOnly(tbl, name, g) ==
  IF g \in DOMAIN tbl /\ name \in Range(tbl[g])
    THEN [err |-> "RuntimeError", table |-> tbl]
    ELSE [err |-> "", table |-> (g :> <<name>>) @@ tbl]

\* Substance.__new__: the uniqueness check and the insertion into the table
Substance_new(tbl, name, g) ==
  IF g \in DOMAIN tbl
    THEN IF name \in Range(tbl[g])
           THEN [err |-> "RuntimeError", table |-> tbl]
           ELSE [err |-> "", table |-> [tbl EXCEPT ![g] = Append(@, name)]]
    ELSE [err |-> "", table |-> (g :> <<name>>) @@ tbl]

\* Substance.overall_fraction_var
overall_fraction_var(name) ==
  COMPUTATIONAL_VARIABLES.component_overall_fraction \o <<Underscore>> \o name

\* Substance.fraction_in_phase_var
fraction_in_phase_var(name, phase_name) ==
  COMPUTATIONAL_VARIABLES.component_fraction_in_phase
    \o <<Underscore>> \o name \o <<Underscore>> \o phase_name

\* Substance.__init__: the instance with its overall-fraction variable
Substance_init(name, g, self) ==
  [name |-> name, gb |-> g,
   omf |-> create_merged_variable(g, DefaultDof, overall_fraction_var(name),
                                  VarId("substance", self, 1)),
   mfip |-> EmptyMap]

\* a substance that never finds a phase name among its fractions
KnownFraction_Never(substance, phase_name) == FALSE

\* Substance.fraction_in_phase, "phase_name in self._mfip.keys()"
KnownFraction(substance, phase_name) == phase_name \in DOMAIN substance.mfip

\* Substance.fraction_in_phase: the cached variable, or a new one that is cached
fraction_in_phase(substance, self, phase_name) ==
  IF KnownFraction(substance, phase_name)
    THEN [ret |-> substance.mfip[phase_name], substance |-> substance, created |-> FALSE]
    ELSE LET id == VarId("substance", self, 2 + Cardinality(DOMAIN substance.mfip))
             mfip == create_merged_variable(substance.gb, DefaultDof,
                       fraction_in_phase_var(substance.name, phase_name), id)
         IN [ret |-> mfip,
             substance |-> [substance EXCEPT !.mfip = (phase_name :> mfip) @@ @],
             created |-> TRUE]

----------------------------------------------------------------------------
(* ComputationalDomain *)

\* MaterialSubdomain(grid, substance): binds a subregion to a substance
MaterialSubdomain(grid, substance) == [grid |-> grid, substance |-> substance]

Min(S) == CHOOSE x \in S : \A y \in S : x <= y

\* ComputationalDomain.__init__, the loop over the grids of the graph:
\* one UnitSolid(self) per grid, each passing Substance.__new__ and __init__
RECURSIVE InitMaterials(_, _, _)
InitMaterials(self, todo, st) ==
  IF todo = {} THEN st
  ELSE LET grid == Min(todo)
           r == Substance_new(st.table, UnitSolidName, self)
       IN IF r.err # ""
            THEN [st EXCEPT !.err = r.err]
            ELSE InitMaterials(self, todo \ {grid},
                   [table |-> r.table,
                    subs |-> Append(st.subs,
                              Substance_init(UnitSolidName, self, Len(st.subs) + 1)),
                    mat |-> (grid :> MaterialSubdomain(grid, Len(st.subs) + 1)) @@ st.mat,
                    err |-> ""])

\* ComputationalDomain.__init__: the fields of a new instance
NewDomainFields(gridbucket, mat) ==
  [gb |-> gridbucket,
   global_ad |-> EmptyMap,
   substance_names |-> {},
   substance_in_phase |-> EmptyMap,
   anticipated_phases |-> <<>>,
   material_subdomains |-> mat,
   dof_updates |-> 0,
   dof_known |-> {}]

\* the variables that exist on domain self: those of its registry and
\* those its substances hold
ExistingOn(cd, self, subs) ==
  {cd.global_ad[n] : n \in DOMAIN cd.global_ad}
    \cup {subs[i].omf : i \in {j \in 1..Len(subs) : subs[j].gb = self}}
    \cup UNION {{subs[i].mfip[q] : q \in DOMAIN subs[i].mfip} :
                  i \in {j \in 1..Len(subs) : subs[j].gb = self}}

\* DofManager.update_dofs: the recount over the variables that exist now
update_dofs(cd, self, subs) ==
  [cd EXCEPT !.dof_updates = @ + 1, !.dof_known = ExistingOn(cd, self, subs)]

\* a registry that never finds a name: every call makes a variable
KnownVariable_Never(cd, variable_name) == FALSE

\* ComputationalDomain.__call__, "variable_name in self._global_ad.keys()"
KnownVariable(cd, variable_name) == variable_name \in DOMAIN cd.global_ad

\* the marker looked for in any token of the name
IsMortar_AnyToken(split_name) ==
  \E i \in 1..Len(split_name) : COMPUTATIONAL_VARIABLES.mortar_prefix = split_name[i]

\* ComputationalDomain.__call__, the test on the first token of the name
IsMortar(split_name) == COMPUTATIONAL_VARIABLES.mortar_prefix = split_name[1]

\* an accessor that replaces a known variable when the DOF specification
\* given differs from the stored one, and recounts
call_Redefine(cd, self, variable_name, dof_info, subs) ==
  IF KnownVariable(cd, variable_name) /\ cd.global_ad[variable_name].dof = dof_info
    THEN [err |-> "", ret |-> cd.global_ad[variable_name], cd |-> cd, created |-> FALSE]
    ELSE LET id == VarId("cd", self, cd.dof_updates + 1)
             var == create_merged_variable(cd.gb, dof_info, variable_name, id)
             stored == [cd EXCEPT !.global_ad = (variable_name :> var) @@ @]
         IN [err |-> "", ret |-> var, cd |-> update_dofs(stored, self, subs),
             created |-> ~KnownVariable(cd, variable_name)]

\* ComputationalDomain.__call__: the registry accessor
call(cd, self, variable_name, dof_info, subs) ==
  IF KnownVariable(cd, variable_name)
    THEN [err |-> "", ret |-> cd.global_ad[variable_name], cd |-> cd, created |-> FALSE]
    ELSE LET split_name == split(variable_name)
             is_mortar == IsMortar(split_name)
         IN IF is_mortar /\ Len(split_name) < 2
              THEN \* symbol = split_name[1] on a one-element list
                   [err |-> "IndexError", ret |-> NoVar, cd |-> cd, created |-> FALSE]
              ELSE LET id == VarId("cd", self, cd.dof_updates + 1)
                       var == IF is_mortar
                                THEN create_merged_mortar_variable(cd.gb, dof_info, variable_name, id)
                                ELSE create_merged_variable(cd.gb, dof_info, variable_name, id)
                       stored == [cd EXCEPT !.global_ad = (variable_name :> var) @@ @]
                   IN [err |-> "", ret |-> var,
                       cd |-> update_dofs(stored, self, subs),
                       created |-> TRUE]

\* an existence check that answers yes to every name
is_variable_Always(cd, var_name) == TRUE

\* ComputationalDomain.is_variable
is_variable(cd, var_name) == var_name \in DOMAIN cd.global_ad

\* an assignment that accepts the subregion and stores nothing
assign_material_to_grid_Kept(cd, grid, substance) ==
  IF grid \in cd.gb
    THEN [err |-> "", cd |-> cd]
    ELSE [err |-> "KeyError", cd |-> cd]

\* the assignment without the membership test
assign_material_to_grid_Unchecked(cd, grid, substance) ==
  [err |-> "",
   cd |-> [cd EXCEPT !.material_subdomains =
              (grid :> MaterialSubdomain(grid, substance)) @@ @]]

\* ComputationalDomain.assign_material_to_grid
assign_material_to_grid(cd, grid, substance) ==
  IF grid \in cd.gb
    THEN [err |-> "",
          cd |-> [cd EXCEPT !.material_subdomains =
                     (grid :> MaterialSubdomain(grid, substance)) @@ @]]
    ELSE [err |-> "KeyError", cd |-> cd]

\* the import of PhaseField made unconditional
TYPE_CHECKING_True == TRUE

\* typing.TYPE_CHECKING is False when the program runs, so the guarded
\* "from .phase import PhaseField" never binds the name PhaseField
TYPE_CHECKING == FALSE

\* Phase(name, cd, substances): a name, the domain it was built for and the
\* substances it iterates over
Phase(name, d, subs) == [name |-> name, cd |-> d, substances |-> subs]

\* ComputationalDomain._resolve_composition: the walk over self.Phases;
\* dict.update replaces the tuple of a phase name that occurs again
RECURSIVE ResolveFrom(_, _, _, _, _, _)
ResolveFrom(listed, i, composition, unique_substances, phs, subs) ==
  IF i > Len(listed) THEN [composition |-> composition,
                           unique_substances |-> unique_substances]
  ELSE LET phase == phs[listed[i]]
           substances_in_phase ==
             [k \in 1..Len(phase.substances) |-> subs[phase.substances[k]].name]
       IN ResolveFrom(listed, i + 1,
            (phase.name :> substances_in_phase) @@ composition,
            unique_substances \cup Range(substances_in_phase), phs, subs)

\* an incremental merge: the walk starts from the stored composition
resolve_composition_Merge(cd, phs, subs) ==
  LET r == ResolveFrom(cd.anticipated_phases, 1, cd.substance_in_phase,
                       cd.substance_names, phs, subs)
  IN [cd EXCEPT !.substance_names = r.unique_substances,
                !.substance_in_phase = r.composition]

\* ComputationalDomain._resolve_composition
resolve_composition(cd, phs, subs) ==
  LET r == ResolveFrom(cd.anticipated_phases, 1, EmptyMap, {}, phs, subs)
  IN [cd EXCEPT !.substance_names = r.unique_substances,
                !.substance_in_phase = r.composition]

\* ComputationalDomain.add_phase, the loop over the batch: old_names is
\* computed once before the loop; a binding mismatch raises in the middle
RECURSIVE AddLoop(_, _, _, _, _, _, _)
AddLoop(self, batch, i, old_names, anticipated, warnings, phs) ==
  IF i > Len(batch) THEN [err |-> "", anticipated |-> anticipated, warnings |-> warnings]
  ELSE LET phase == phs[batch[i]]
       IN IF phase.cd # self
            THEN [err |-> "ValueError", anticipated |-> anticipated, warnings |-> warnings]
            ELSE IF phase.name \in old_names
              THEN AddLoop(self, batch, i + 1, old_names, anticipated, warnings + 1, phs)
              ELSE AddLoop(self, batch, i + 1, old_names,
                           Append(anticipated, batch[i]), warnings, phs)

\* every phase of the batch appended, whatever domain it was built for
add_phase_Unchecked(cd, self, arg, phs, subs) ==
  [err |-> "",
   cd |-> resolve_composition([cd EXCEPT !.anticipated_phases = @ \o arg.items], phs, subs),
   warnings |-> 0]

\* ComputationalDomain.add_phase
add_phase(cd, self, arg, phs, subs) ==
  IF ~TYPE_CHECKING
    THEN \* isinstance(phases, PhaseField) evaluates the unbound name PhaseField
         [err |-> "NameError", cd |-> cd, warnings |-> 0]
    ELSE LET batch == arg.items  \* a single PhaseField is wrapped in a list
             old_names == {phs[cd.anticipated_phases[k]].name :
                             k \in 1..Len(cd.anticipated_phases)}
             r == AddLoop(self, batch, 1, old_names, cd.anticipated_phases, 0, phs)
             appended == [cd EXCEPT !.anticipated_phases = r.anticipated]
         IN IF r.err # ""
              THEN [err |-> r.err, cd |-> appended, warnings |-> r.warnings]
              ELSE [err |-> "", cd |-> resolve_composition(appended, phs, subs),
                    warnings |-> r.warnings]

\* ComputationalDomain.np
np(cd) == Len(cd.anticipated_phases)

\* ComputationalDomain.ns
ns(cd) == Cardinality(cd.substance_names)

\* ComputationalDomain.Phases
Phases(cd) == cd.anticipated_phases

----------------------------------------------------------------------------
(* Operations *)

Outcome(op, cd, args, err, ret, warnings) ==
  [op |-> op, cd |-> cd, args |-> args, err |-> err, ret |-> ret, warnings |-> warnings]

Init ==
  /\ table = EmptyMap
  /\ cds = EmptyMap
  /\ substances = <<>>
  /\ phases = <<>>
  /\ nextDom = 1
  /\ last = Outcome("init", 0, <<>>, "", NoVar, 0)
  /\ calls = EmptyMap

\* the objects made so far
Registered == LET RECURSIVE Sum(_)
                  Sum(D) == IF D = {} THEN 0
                            ELSE LET d == Min(D)
                                 IN Cardinality(DOMAIN cds[d].global_ad) + Sum(D \ {d})
              IN Sum(DOMAIN cds)
Fractions == LET RECURSIVE Sum(_)
                 Sum(i) == IF i = 0 THEN 0
                           ELSE Cardinality(DOMAIN substances[i].mfip) + Sum(i - 1)
             IN Sum(Len(substances))
Objects == (nextDom - 1) + Len(substances) + Len(phases) + Registered + Fractions

\* ComputationalDomain(gridbucket)
NewDomain(gridbucket) ==
  /\ nextDom <= MaxDomains
  /\ LET self == nextDom
         st == InitMaterials(self, gridbucket,
                 [table |-> table, subs |-> substances, mat |-> EmptyMap, err |-> ""])
     IN /\ Len(st.subs) <= MaxSubstances
        /\ Objects + 1 + Len(st.subs) - Len(substances) <= MaxObjects
        /\ table' = st.table
        /\ nextDom' = nextDom + 1
        /\ IF st.err = ""
             THEN /\ cds' = (self :> NewDomainFields(gridbucket, st.mat)) @@ cds
                  /\ substances' = st.subs
             ELSE \* the exception leaves __init__: no instance is returned
                  UNCHANGED <<cds, substances>>
        /\ last' = Outcome("new_domain", self, <<gridbucket>>, st.err, NoVar, 0)
  /\ UNCHANGED <<phases, calls>>

\* cd(variable_name, dof_info)
Call(d, variable_name, dof_info) ==
  /\ d \in DOMAIN cds
  /\ LET r == call(cds[d], d, variable_name, dof_info, substances)
     IN /\ r.created => Registered < MaxVars /\ Objects < MaxObjects
        /\ cds' = [cds EXCEPT ![d] = r.cd]
        /\ last' = Outcome("call", d, <<variable_name, dof_info>>, r.err, r.ret, 0)
  /\ UNCHANGED <<table, substances, phases, nextDom, calls>>

\* cd.is_variable(var_name)
IsVariable(d, var_name) ==
  /\ d \in DOMAIN cds
  /\ last' = Outcome("is_variable", d, <<var_name>>, "",
                     [value |-> is_variable(cds[d], var_name)], 0)
  /\ UNCHANGED <<table, cds, substances, phases, nextDom, calls>>

\* cd.assign_material_to_grid(grid, substance)
AssignMaterial(d, grid, substance) ==
  /\ d \in DOMAIN cds
  /\ substance \in 1..Len(substances)
  /\ LET r == assign_material_to_grid(cds[d], grid, substance)
     IN /\ cds' = [cds EXCEPT ![d] = r.cd]
        /\ last' = Outcome("assign_material_to_grid", d, <<grid, substance>>, r.err, NoVar, 0)
  /\ UNCHANGED <<table, substances, phases, nextDom, calls>>

\* T(gb) for a concrete Substance subclass T: __new__, then __init__
NewSubstance(name, g) ==
  /\ g \in DOMAIN cds
  /\ LET r == Substance_new(table, name, g)
     IN /\ table' = r.table
        /\ IF r.err = ""
             THEN /\ Len(substances) < MaxSubstances
                  /\ Objects < MaxObjects
                  /\ substances' = Append(substances,
                                      Substance_init(name, g, Len(substances) + 1))
             ELSE UNCHANGED substances
        /\ last' = Outcome("new_substance", g, <<name>>, r.err, NoVar, 0)
  /\ UNCHANGED <<cds, phases, nextDom, calls>>

\* substance.fraction_in_phase(phase_name)
FractionInPhase(sub, phase_name) ==
  /\ sub \in 1..Len(substances)
  /\ LET r == fraction_in_phase(substances[sub], sub, phase_name)
     IN /\ r.created => Fractions < MaxFractions /\ Objects < MaxObjects
        /\ substances' = [substances EXCEPT ![sub] = r.substance]
        /\ last' = Outcome("fraction_in_phase", substances[sub].gb, <<sub, phase_name>>,
                           "", r.ret, 0)
  /\ UNCHANGED <<table, cds, phases, nextDom, calls>>

\* sequences over S of length 0..n
RECURSIVE SeqsFromZero(_, _)
SeqsFromZero(S, n) ==
  IF n = 0 THEN {<<>>}
  ELSE LET shorter == SeqsFromZero(S, n - 1)
       IN shorter \cup {Append(q, x) : q \in shorter, x \in S}

NoRepeat(q) == \A a, b \in 1..Len(q) : a # b => q[a] # q[b]

\* Phase(name, cd) holding the given substances
NewPhase(name, d, subs) ==
  /\ d \in DOMAIN cds
  /\ Len(phases) < MaxPhases
  /\ Objects < MaxObjects
  /\ phases' = Append(phases, Phase(name, d, subs))
  /\ last' = Outcome("new_phase", d, <<name, subs>>, "", NoVar, 0)
  /\ UNCHANGED <<table, cds, substances, nextDom, calls>>

\* cd.add_phase(phases): one phase (arg.single) or a list of phases
AddPhase(d, arg) ==
  /\ d \in DOMAIN cds
  /\ LET r == add_phase(cds[d], d, arg, phases, substances)
     IN /\ cds' = [cds EXCEPT ![d] = r.cd]
        /\ last' = Outcome("add_phase", d, <<arg>>, r.err, NoVar, r.warnings)
  /\ UNCHANGED <<table, substances, phases, nextDom, calls>>

\* the batches add_phase is called with: one phase, and the lists [x],
\* [x, y] and [x, y, x] over the constructed phases
PhaseBatches ==
  LET P == 1..Len(phases)
  IN {<<x>> : x \in P} \cup {<<x, y>> : x, y \in P}
       \cup {<<x, y, x>> : x, y \in P}

PhaseArgs ==
  {[single |-> TRUE, items |-> <<x>>] : x \in 1..Len(phases)}
    \cup {[single |-> FALSE, items |-> q] : q \in PhaseBatches}

Next ==
  \/ \E gridbucket \in GridBuckets : NewDomain(gridbucket)
  \/ \E d \in DOMAIN cds, n \in VarNames, dof \in DofInfos : Call(d, n, dof)
  \/ \E d \in DOMAIN cds, n \in VarNames : IsVariable(d, n)
  \/ \E d \in DOMAIN cds, grid \in GridPool, s \in 1..Len(substances) :
       AssignMaterial(d, grid, s)
  \/ \E name \in SubstanceTypes, g \in DOMAIN cds : NewSubstance(name, g)
  \/ \E name \in PhaseNames, d \in DOMAIN cds,
        subs \in {q \in SeqsFromZero(1..Len(substances), 2) : NoRepeat(q)} :
       NewPhase(name, d, subs)
  \/ \E d \in DOMAIN cds, arg \in PhaseArgs : AddPhase(d, arg)
  \/ \E sub \in 1..Len(substances), phase_name \in PhaseNames :
       FractionInPhase(sub, phase_name)

Spec == Init /\ [][Next]_vars

----------------------------------------------------------------------------
(* _resolve_composition on its own: a domain whose phase list and stored
   composition are drawn from bounded sets, and the method applied to it *)

\* the phases a domain can be handed: a name and an ordered choice of substances
PhasePool(d, nsubs) ==
  {Phase(name, d, subs) :
     name \in PhaseNames,
     subs \in {q \in SeqsFromZero(1..nsubs, 2) : NoRepeat(q)}}

\* phase lists over the phases made: each phase object listed at most once
Listings == {q \in SeqsFromZero(1..MaxPhases, MaxPhases) : NoRepeat(q)}

\* the composition as it is stored on the domain
Composition(cd) ==
  [composition |-> cd.substance_in_phase, unique_substances |-> cd.substance_names]

\* a domain on one grid with its unit solid, a second substance, MaxPhases
\* phases, a phase list, and the composition resolved for an earlier list
InitResolve ==
  LET self == 1
      gridbucket == 1..1
      st == InitMaterials(self, gridbucket,
              [table |-> EmptyMap, subs |-> <<>>, mat |-> EmptyMap, err |-> ""])
      r == Substance_new(st.table, Water, self)
      subs == Append(st.subs, Substance_init(Water, self, Len(st.subs) + 1))
  IN /\ table = r.table
     /\ substances = subs
     /\ nextDom = self + 1
     /\ phases \in [1..MaxPhases -> PhasePool(self, Len(subs))]
     /\ \E listed \in Listings, earlier \in {q \in Listings : Len(q) <= 1} :
          LET old == ResolveFrom(earlier, 1, EmptyMap, {}, phases, subs)
          IN cds = (self :> [NewDomainFields(gridbucket, st.mat) EXCEPT
                               !.anticipated_phases = listed,
                               !.substance_names = old.unique_substances,
                               !.substance_in_phase = old.composition])
     /\ last = Outcome("init", 0, <<>>, "", NoVar, 0)
     /\ calls = EmptyMap

\* cd._resolve_composition(); the outcome keeps the composition found by the
\* first of the consecutive runs and the one found by this run
Resolve(d) ==
  /\ d \in DOMAIN cds
  /\ cds' = [cds EXCEPT ![d] = resolve_composition(cds[d], phases, substances)]
  /\ last' = Outcome("resolve_composition", d,
                     IF last.op = "resolve_composition" /\ last.cd = d
                       THEN <<last.args[1], Composition(cds[d])>>
                       ELSE <<Composition(cds[d]), Composition(cds[d])>>,
                     "", NoVar, 0)
  /\ UNCHANGED <<table, substances, phases, nextDom, calls>>

NextResolve == \E d \in DOMAIN cds : Resolve(d)

SpecResolve == InitResolve /\ [][NextResolve]_vars

----------------------------------------------------------------------------
(* constructions whose instance does not stay: the caller drops the new
   instance, or create_merged_variable raises inside Substance.__init__ *)

Fates == {"discarded", "init_failed"}

\* the names the table holds, over all domains
Named == LET RECURSIVE Sum(_)
             Sum(D) == IF D = {} THEN 0
                       ELSE LET g == Min(D) IN Len(table[g]) + Sum(D \ {g})
         IN Sum(DOMAIN table)

\* T(cd) where __new__ has passed the check and the instance is lost (a
\* rejected construction has no instance to lose: that is NewSubstance)
NewSubstanceLost(name, g, fate) ==
  /\ g \in DOMAIN cds
  /\ LET r == Substance_new(table, name, g)
     IN /\ r.err = ""
        /\ Named < MaxSubstances /\ Objects < MaxObjects
        /\ table' = r.table
        /\ last' = Outcome("new_substance_lost", g, <<name, fate>>,
                           IF fate = "init_failed" THEN "Exception" ELSE "",
                           NoVar, 0)
  /\ UNCHANGED <<cds, substances, phases, nextDom, calls>>

\* the operations that construct substances or work on them; the table is
\* private to Substance and the other operations have no access to it
NextTable ==
  \/ \E gridbucket \in GridBuckets : NewDomain(gridbucket)
  \/ \E name \in SubstanceTypes, g \in DOMAIN cds : NewSubstance(name, g)
  \/ \E d \in DOMAIN cds, grid \in GridPool, s \in 1..Len(substances) :
       AssignMaterial(d, grid, s)
  \/ \E sub \in 1..Len(substances), phase_name \in PhaseNames :
       FractionInPhase(sub, phase_name)
  \/ \E name \in SubstanceTypes, g \in DOMAIN cds, fate \in Fates :
       NewSubstanceLost(name, g, fate)

SpecTable == Init /\ [][NextTable]_vars

----------------------------------------------------------------------------
(* Substance.__new__ statement by statement, run by several threads: the
   method takes no lock, so a thread switch can fall between any two of its
   statements *)

Threads == 1..MaxThreads

\* the thread leaves Substance.__new__
Left(t) == [u \in DOMAIN calls \ {t} |-> calls[u]]

\* T(cd) is called on thread t; line 57: name = str(cls.__name__)
NewEnter(t, name, g) ==
  /\ t \notin DOMAIN calls
  /\ g \in DOMAIN cds
  /\ Len(substances) + Cardinality(DOMAIN calls) < MaxSubstances
  /\ Objects + Cardinality(DOMAIN calls) < MaxObjects
  /\ calls' = (t :> [name |-> name, gb |-> g, at |-> "keys"]) @@ calls
  /\ UNCHANGED <<table, cds, substances, phases, nextDom, last>>

\* line 58: if gb in Substance.__substance_instances.keys()
NewTestKeys(t) ==
  /\ t \in DOMAIN calls /\ calls[t].at = "keys"
  /\ calls' = [calls EXCEPT ![t].at =
                 IF calls[t].gb \in DOMAIN table THEN "names" ELSE "update"]
  /\ UNCHANGED <<table, cds, substances, phases, nextDom, last>>

\* lines 59-62: if name in Substance.__substance_instances[gb]: raise
NewTestNames(t) ==
  /\ t \in DOMAIN calls /\ calls[t].at = "names"
  /\ IF calls[t].name \in Range(table[calls[t].gb])
       THEN /\ calls' = Left(t)
            /\ last' = Outcome("new_substance", calls[t].gb, <<calls[t].name>>,
                               "RuntimeError", NoVar, 0)
       ELSE /\ calls' = [calls EXCEPT ![t].at = "append"]
            /\ last' = last
  /\ UNCHANGED <<table, cds, substances, phases, nextDom>>

\* line 64: Substance.__substance_instances.update({gb: list()}); dict.update
\* replaces the list another thread has stored for gb since line 58
NewUpdate(t) ==
  /\ t \in DOMAIN calls /\ calls[t].at = "update"
  /\ table' = (calls[t].gb :> <<>>) @@ table
  /\ calls' = [calls EXCEPT ![t].at = "append"]
  /\ UNCHANGED <<cds, substances, phases, nextDom, last>>

\* line 66: Substance.__substance_instances[gb].append(name)
NewAppend(t) ==
  /\ t \in DOMAIN calls /\ calls[t].at = "append"
  /\ table' = [table EXCEPT ![calls[t].gb] = Append(@, calls[t].name)]
  /\ calls' = [calls EXCEPT ![t].at = "return"]
  /\ UNCHANGED <<cds, substances, phases, nextDom, last>>

\* line 67 and Substance.__init__: the construction returns its instance
NewReturn(t) ==
  /\ t \in DOMAIN calls /\ calls[t].at = "return"
  /\ substances' = Append(substances,
                          Substance_init(calls[t].name, calls[t].gb, Len(substances) + 1))
  /\ calls' = Left(t)
  /\ last' = Outcome("new_substance", calls[t].gb, <<calls[t].name>>, "", NoVar, 0)
  /\ UNCHANGED <<table, cds, phases, nextDom>>

NextThreads ==
  \/ \E gridbucket \in GridBuckets : NewDomain(gridbucket)
  \/ \E t \in Threads, name \in SubstanceTypes, g \in DOMAIN cds : NewEnter(t, name, g)
  \/ \E t \in Threads : NewTestKeys(t)
  \/ \E t \in Threads : NewTestNames(t)
  \/ \E t \in Threads : NewUpdate(t)
  \/ \E t \in Threads : NewAppend(t)
  \/ \E t \in Threads : NewReturn(t)

SpecThreads == Init /\ [][NextThreads]_vars

----------------------------------------------------------------------------
(* Properties *)

\* a step of the named operation on domain d
Did(op, d) == last'.op = op /\ last'.cd = d

\* C1: any two calls of the registry accessor with the same name return the
\* identical variable, whatever happens in between: a registered name keeps
\* its variable over every step, every call that returns gives back the
\* variable registered under its name, and the registry changes only by a
\* call for a name that was not registered, which adds that one name.
C1_SameNameSameVariable ==
  [][\A d \in DOMAIN cds :
       LET old == cds[d].global_ad
           new == cds'[d].global_ad
       IN /\ \A n \in DOMAIN old : n \in DOMAIN new /\ new[n] = old[n]
          /\ (Did("call", d) /\ last'.err = "") =>
               /\ last'.args[1] \in DOMAIN new
               /\ last'.ret = new[last'.args[1]]
          /\ new # old =>
               /\ Did("call", d)
               /\ last'.args[1] \notin DOMAIN old
               /\ DOMAIN new = DOMAIN old \cup {last'.args[1]}]_vars

\* C1 witness: a call returned the variable made first on a domain whose
\* registry has made a second one since
C1_Witness ==
  \E d \in DOMAIN cds :
    /\ last.op = "call" /\ last.cd = d /\ last.err = ""
    /\ last.ret.id = VarId("cd", d, 1)
    /\ Cardinality(DOMAIN cds[d].global_ad) = 2

\* C3: constructing a domain succeeds for every graph and leaves one
\* material entry per subregion of the graph.
C3_ConstructionSucceeds ==
  last.op = "new_domain" =>
    /\ last.err = ""
    /\ last.cd \in DOMAIN cds
    /\ DOMAIN cds[last.cd].material_subdomains = last.args[1]

\* C8: assign_material_to_grid with a subregion outside the graph raises the
\* lookup error and leaves the material mapping as it was.
C8_ForeignGridRejected ==
  [][\A d \in DOMAIN cds :
       (Did("assign_material_to_grid", d) /\ last'.args[1] \notin cds[d].gb) =>
         /\ last'.err = "KeyError"
         /\ cds'[d].material_subdomains = cds[d].material_subdomains
         /\ last'.args[1] \notin DOMAIN cds'[d].material_subdomains]_vars

\* C8 witness: the lookup error on a domain that has a subregion with a material
C8_Witness ==
  /\ last.op = "assign_material_to_grid" /\ last.err = "KeyError"
  /\ last.args[1] \notin cds[last.cd].gb
  /\ cds[last.cd].material_subdomains # EmptyMap

\* C9: a call with a name without underscore raises no error and registers a
\* subregion-scoped variable under that name.
C9_NoUnderscoreNoError ==
  (last.op = "call" /\ Underscore \notin Range(last.args[1])) =>
    /\ last.err = ""
    /\ last.args[1] \in DOMAIN cds[last.cd].global_ad
    /\ cds[last.cd].global_ad[last.args[1]].scope = "subdomain"

\* the name starts with the marker, and the marker ends the name or an
\* underscore follows it
StartsWithMarker(n) ==
  LET m == COMPUTATIONAL_VARIABLES.mortar_prefix
  IN /\ Len(n) >= Len(m)
     /\ SubSeq(n, 1, Len(m)) = m
     /\ (Len(n) = Len(m) \/ n[Len(m) + 1] = Underscore)

\* C10: every registered variable was made by the interface-scoped routine
\* exactly if the first token of its name is the marker, by the
\* subregion-scoped routine otherwise, and the routine got the full name.
C10_ScopeByFirstToken ==
  \A d \in DOMAIN cds : \A n \in DOMAIN cds[d].global_ad :
    LET var == cds[d].global_ad[n]
    IN /\ var.name = n
       /\ var.scope = (IF StartsWithMarker(n) THEN "mortar" ELSE "subdomain")

\* C10 witness: one registry holds an interface-scoped variable and a
\* subregion-scoped one whose name has the marker as a later token
C10_Witness ==
  \E d \in DOMAIN cds :
    /\ mortar_p \in DOMAIN cds[d].global_ad
    /\ cds[d].global_ad[mortar_p].scope = "mortar"
    /\ p_mortar \in DOMAIN cds[d].global_ad
    /\ cds[d].global_ad[p_mortar].scope = "subdomain"

\* C2: add_phase([A, B, A]) on a domain without phases, A and B built for it
\* under different names, leaves the phase list [A, B] and warns once; no
\* phase list holds a name twice.
C2_DuplicateInBatchSkipped ==
  [][\A d \in DOMAIN cds :
       LET items == last'.args[1].items
           listed == cds'[d].anticipated_phases
       IN /\ \A i, j \in 1..Len(listed) :
               i # j => phases'[listed[i]].name # phases'[listed[j]].name
          /\ ( /\ Did("add_phase", d)
               /\ cds[d].anticipated_phases = <<>>
               /\ Len(items) = 3 /\ items[1] = items[3]
               /\ phases[items[1]].name # phases[items[2]].name
               /\ phases[items[1]].cd = d /\ phases[items[2]].cd = d )
             => (listed = <<items[1], items[2]>> /\ last'.warnings = 1)]_vars

\* substance T has an instance constructed on domain D
ConstructedOn(T, D) ==
  \E i \in 1..Len(substances) : substances[i].name = T /\ substances[i].gb = D

\* C4: constructing a substance of type T on domain D fails exactly if T was
\* constructed on D before, whatever was constructed on other domains; a
\* success yields the instance, and the table never holds a name twice for
\* one domain.
C4_UniquePerDomain ==
  [][/\ \A g \in DOMAIN table' : NoRepeat(table'[g])
     /\ \A d \in DOMAIN cds :
          Did("new_substance", d) =>
            LET T == last'.args[1]
            IN /\ (last'.err = "RuntimeError") <=> ConstructedOn(T, d)
               /\ (last'.err # "RuntimeError") <=> last'.err = ""
               /\ last'.err = "" =>
                    /\ Len(substances') = Len(substances) + 1
                    /\ substances'[Len(substances')].name = T
                    /\ substances'[Len(substances')].gb = d
               /\ last'.err # "" => substances' = substances]_vars

\* C4 witness: a type constructed on one domain, then on another, and a
\* further construction of it rejected
C4_Witness ==
  /\ last.op = "new_substance" /\ last.err = "RuntimeError"
  /\ \E i, j \in 1..Len(substances) :
       /\ i < j
       /\ substances[i].name = last.args[1] /\ substances[j].name = last.args[1]
       /\ substances[i].gb # substances[j].gb

\* the names of the phases in the phase list of cd
ListedNames(cd) == {phases[cd.anticipated_phases[k]].name : k \in 1..Len(cd.anticipated_phases)}

\* the names of the substances of a phase, in its iteration order
SubstanceNamesOf(ph) == [k \in 1..Len(ph.substances) |-> substances[ph.substances[k]].name]

\* the substance names of all listed phases
ListedSubstanceNames(cd) ==
  UNION {Range(SubstanceNamesOf(phases[cd.anticipated_phases[k]])) :
           k \in 1..Len(cd.anticipated_phases)}

C6_CompositionConsistent ==
  \A d \in DOMAIN cds :
    /\ DOMAIN cds[d].substance_in_phase = ListedNames(cds[d])
    /\ cds[d].substance_names = ListedSubstanceNames(cds[d])

\* C6 witness: add_phase ended with an error on a batch in which a phase of
\* this domain precedes a phase built for another domain
C6_Witness ==
  /\ last.op = "add_phase" /\ last.err # ""
  /\ Len(last.args[1].items) = 2
  /\ phases[last.args[1].items[1]].cd = last.cd
  /\ phases[last.args[1].items[2]].cd # last.cd

\* C7: add_phase with a phase built for another domain raises an error and
\* does not insert that phase; every listed phase was built for the domain.
C7_ForeignPhaseRejected ==
  [][\A d \in DOMAIN cds :
       /\ \A k \in 1..Len(cds'[d].anticipated_phases) :
            phases'[cds'[d].anticipated_phases[k]].cd = d
       /\ ( /\ Did("add_phase", d)
            /\ \E i \in Range(last'.args[1].items) : phases[i].cd # d )
          => /\ last'.err # ""
             /\ \A i \in Range(last'.args[1].items) :
                  phases[i].cd # d => i \notin Range(cds'[d].anticipated_phases)]_vars

\* C7 witness: add_phase was called with one phase, built for another domain
C7_Witness ==
  /\ last.op = "add_phase" /\ last.err # ""
  /\ Len(last.args[1].items) = 1
  /\ phases[last.args[1].items[1]].cd # last.cd

\* the variables a substance holds: its overall fraction and its fractions in phases
VariablesOf(substance) ==
  {substance.omf} \cup {substance.mfip[p] : p \in DOMAIN substance.mfip}

\* C11: every variable a substance holds is registered in the registry of the
\* substance's domain: is_variable is true for its name and the registry
\* holds that very instance under the name.
C11_SubstanceVariablesRegistered ==
  \A i \in 1..Len(substances) : \A var \in VariablesOf(substances[i]) :
    LET d == substances[i].gb
    IN /\ is_variable(cds[d], var.name)
       /\ var.name \in DOMAIN cds[d].global_ad
       /\ cds[d].global_ad[var.name] = var

\* C13: for every substance the first fraction_in_phase call for a phase name
\* makes one new variable and caches it, and every later call for that name
\* returns the cached instance and makes none: a cached entry stays as it is
\* over every step, a call returns the entry of its phase name, and the
\* cache changes only by a call for a name it did not hold, which adds that
\* one name with a variable the substance did not hold before.
C13_FractionCached ==
  [][\A i \in 1..Len(substances) :
       LET old == substances[i].mfip
           new == substances'[i].mfip
           called == last'.op = "fraction_in_phase" /\ last'.args[1] = i
       IN /\ \A p \in DOMAIN old : p \in DOMAIN new /\ new[p] = old[p]
          /\ called => (last'.args[2] \in DOMAIN new /\ last'.ret = new[last'.args[2]])
          /\ new # old =>
               /\ called
               /\ last'.args[2] \notin DOMAIN old
               /\ DOMAIN new = DOMAIN old \cup {last'.args[2]}
               /\ new[last'.args[2]] \notin VariablesOf(substances[i])]_vars

\* C13 witness: a call returned the fraction variable made first by a
\* substance that has made a second one, for another phase name, since
C13_Witness ==
  /\ last.op = "fraction_in_phase"
  /\ last.ret.id = VarId("substance", last.args[1], 2)
  /\ Cardinality(DOMAIN substances[last.args[1]].mfip) = 2

\* C12: a registry call that makes a variable has the DOF recount run after
\* the variable is stored, so the last recount of a domain covers every
\* variable of its registry; and every variable that exists on a domain,
\* those its substances hold included, is covered by the last recount.
C12_EveryVariableRecounted ==
  \A d \in DOMAIN cds :
    /\ {cds[d].global_ad[n] : n \in DOMAIN cds[d].global_ad} \subseteq cds[d].dof_known
    /\ Cardinality(DOMAIN cds[d].global_ad) <= cds[d].dof_updates
    /\ ExistingOn(cds[d], d, substances) \subseteq cds[d].dof_known

\* the batch names phases built for domain d only, under names that differ
\* from each other and from those of the phases d lists
FreshBatch(d, items) ==
  /\ \A i \in Range(items) : phases[i].cd = d
  /\ \A a, b \in 1..Len(items) : a # b => phases[items[a]].name # phases[items[b]].name
  /\ \A i \in Range(items) : phases[i].name \notin
       {phases[cds[d].anticipated_phases[k]].name : k \in 1..Len(cds[d].anticipated_phases)}

C16_SinglePhaseAccepted ==
  \A d \in DOMAIN cds :
    ( /\ last.op = "add_phase" /\ last.cd = d
      /\ last.args[1].single
      /\ phases[last.args[1].items[1]].cd = d )
    => /\ last.err = ""
       /\ \E k \in 1..Len(cds[d].anticipated_phases) :
            phases[cds[d].anticipated_phases[k]].name = phases[last.args[1].items[1]].name
       /\ cds[d] = resolve_composition(cds[d], phases, substances)

\* C18: add_phase with the batch [A, B], A a new phase of the domain and B
\* built for another domain, raises the binding-mismatch error and leaves A
\* appended to the phase list.
C18_PartialBatchKept ==
  [][\A d \in DOMAIN cds :
       LET items == last'.args[1].items
       IN ( /\ Did("add_phase", d)
            /\ Len(items) = 2
            /\ FreshBatch(d, <<items[1]>>)
            /\ phases[items[2]].cd # d )
          => /\ last'.err = "ValueError"
             /\ cds'[d].anticipated_phases = Append(cds[d].anticipated_phases, items[1])]_vars

C15_AssignReplacesOneEntry ==
  [][\A d \in DOMAIN cds :
       LET old == cds[d].material_subdomains
           new == cds'[d].material_subdomains
           grid == last'.args[1]
       IN /\ DOMAIN new = cds'[d].gb
          /\ (Did("assign_material_to_grid", d) /\ grid \in cds[d].gb) =>
               /\ last'.err = ""
               /\ new[grid] = MaterialSubdomain(grid, last'.args[2])
               /\ \A g \in DOMAIN old \ {grid} : new[g] = old[g]
               /\ \A e \in DOMAIN cds \ {d} :
                    cds'[e].material_subdomains = cds[e].material_subdomains]_vars

\* C15 witness: a substance was assigned to a subregion while it is the
\* material of a subregion of another domain as well
C15_Witness ==
  /\ last.op = "assign_material_to_grid" /\ last.err = ""
  /\ \E e \in DOMAIN cds \ {last.cd} : \E g \in DOMAIN cds[e].material_subdomains :
       cds[e].material_subdomains[g].substance = last.args[2]
  /\ cds[last.cd].material_subdomains[last.args[1]].substance = last.args[2]

\* C17: is_variable(n) answers whether the registry holds a variable that
\* was made under the name n, and the call leaves registry, phase list,
\* composition, material mapping, DOF recounts, substances and the
\* uniqueness table as they were.
C17_IsVariablePure ==
  [][\A d \in DOMAIN cds :
       Did("is_variable", d) =>
         /\ last'.ret.value = (\E m \in DOMAIN cds[d].global_ad :
                                 cds[d].global_ad[m].name = last'.args[1])
         /\ cds' = cds /\ table' = table /\ substances' = substances
         /\ phases' = phases /\ nextDom' = nextDom]_vars

\* C17 witness: is_variable said yes on a domain, and the registry of that
\* domain lacks another of the names
C17_Witness ==
  /\ last.op = "is_variable" /\ last.ret.value
  /\ \E n \in VarNames : n \notin DOMAIN cds[last.cd].global_ad

\* C20: _resolve_composition rebuilds the composition from the phase list
\* alone: afterwards the keys are the names of the listed phases, each key
\* holds the substance names of the last listed phase of that name, the
\* substance-name set is the union over the listed phases, the phase list is
\* untouched, and a run that follows a run changes nothing.
C20_ResolveRebuildsIdempotent ==
  [][\A d \in DOMAIN cds :
       Did("resolve_composition", d) =>
         LET listed == cds[d].anticipated_phases
         IN /\ cds'[d].anticipated_phases = listed
            /\ DOMAIN cds'[d].substance_in_phase = ListedNames(cds[d])
            /\ \A n \in DOMAIN cds'[d].substance_in_phase :
                 \E k \in 1..Len(listed) :
                   /\ phases[listed[k]].name = n
                   /\ \A j \in (k + 1)..Len(listed) : phases[listed[j]].name # n
                   /\ cds'[d].substance_in_phase[n] = SubstanceNamesOf(phases[listed[k]])
            /\ cds'[d].substance_names = ListedSubstanceNames(cds[d])
            /\ (last.op = "resolve_composition" /\ last.cd = d) => cds'[d] = cds[d]]_vars

\* C20 witness: the method has run twice in a row on a domain that lists a
\* phase with a substance; the first run found a composition with a phase name and a
\* substance name that the phase list does not give, and they are gone; the
\* second run found the composition it left
C20_Witness ==
  /\ last.op = "resolve_composition"
  /\ Len(cds[last.cd].anticipated_phases) >= 1
  /\ \E n \in DOMAIN last.args[1].composition :
       n \notin DOMAIN cds[last.cd].substance_in_phase
  /\ \E x \in last.args[1].unique_substances : x \notin cds[last.cd].substance_names
  /\ cds[last.cd].substance_names # {}
  /\ last.args[2] = Composition(cds[last.cd])

\* C22: a call of the registry accessor for a registered name with a DOF
\* specification other than the one the variable was made with returns the
\* registered variable, which keeps its DOF specification; the registry, the
\* recount counter and everything else of the program stay as they were.
C22_KnownNameIgnoresDofInfo ==
  [][\A d \in DOMAIN cds :
       ( /\ Did("call", d)
         /\ last'.args[1] \in DOMAIN cds[d].global_ad
         /\ cds[d].global_ad[last'.args[1]].dof # last'.args[2] )
       => /\ last'.err = ""
          /\ last'.ret = cds[d].global_ad[last'.args[1]]
          /\ last'.ret.dof # last'.args[2]
          /\ cds'[d].dof_updates = cds[d].dof_updates
          /\ cds' = cds /\ table' = table /\ substances' = substances
          /\ phases' = phases /\ nextDom' = nextDom]_vars

\* C22 witness: a call has returned a variable whose DOF specification is
\* not the one the call gave
C22_Witness ==
  /\ last.op = "call" /\ last.err = ""
  /\ last.args[1] \in DOMAIN cds[last.cd].global_ad
  /\ last.ret = cds[last.cd].global_ad[last.args[1]]
  /\ last.ret.dof # last.args[2]

\* sequence p is the beginning of sequence q
IsPrefix(p, q) == Len(p) <= Len(q) /\ \A k \in 1..Len(p) : p[k] = q[k]

\* C23: no operation takes a name out of the uniqueness table: every step
\* keeps the names of every domain, in their places; a construction of T on
\* D that is not rejected leaves T in the table of D, also when its instance
\* is dropped or its initialisation fails; a construction of T on D while T
\* is in the table of D is rejected, and a rejected construction leaves the
\* table as it was.
C23_TableNeverForgets ==
  [][/\ \A g \in DOMAIN table : g \in DOMAIN table' /\ IsPrefix(table[g], table'[g])
     /\ \A d \in DOMAIN cds :
          (Did("new_substance", d) \/ Did("new_substance_lost", d)) =>
            LET T == last'.args[1]
            IN /\ (d \in DOMAIN table /\ T \in Range(table[d]))
                    => last'.err = "RuntimeError"
               /\ last'.err = "RuntimeError" => table' = table
               /\ last'.err # "RuntimeError"
                    => d \in DOMAIN table' /\ T \in Range(table'[d])]_vars

\* C23 witness: a construction of T on D has been rejected although no
\* instance of T on D exists: the earlier one was lost, its name was not
\* (D holds another substance, so its list had two names to keep)
C23_Witness ==
  /\ last.op = "new_substance" /\ last.err = "RuntimeError"
  /\ ~ConstructedOn(last.args[1], last.cd)
  /\ \E i \in 1..Len(substances) : substances[i].gb = last.cd
  /\ Len(table[last.cd]) = 2

\* C21: whatever the interleaving of the constructions in progress, the
\* table holds no name twice for a domain and no two instances of one type
\* exist on one domain: of two interleaved constructions of a type on a
\* domain at most one succeeds.
C21_InterleavedConstructionsUnique ==
  /\ \A g \in DOMAIN table : NoRepeat(table[g])
  /\ \A i, j \in 1..Len(substances) :
       (i # j /\ substances[i].gb = substances[j].gb)
         => substances[i].name # substances[j].name

====
